---- MODULE Spec2Model ----
(***************************************************************************)
(* A model of nkrane/terminology_manager.py: the term store and its CSV    *)
(* loader, the placeholder encoder (preprocess_text) and the case          *)
(* preserving restorer (postprocess_text).                                 *)
(*                                                                         *)
(* A Python str is a sequence of one-character strings.  A pandas cell is  *)
(* such a sequence, or <<"NaN">> for an empty cell; an id cell is <<n>>,   *)
(* or <<>> for an empty cell.                                              *)
(***************************************************************************)
EXTENDS Integers, Sequences, FiniteSets, TLC

VARIABLES
    SPACY_AVAILABLE,    \* module flag set when the module is imported
    terms,              \* self.terms: normalized term text -> Term
    language,           \* self.language: <<"None">> or a language code
    lpc,                \* loader position: "idle" or "rows"
    csv,                \* the file _load_single_file is reading
    loaded,             \* history: the Term records stored so far, in order
    last_source,        \* history: the language of the last source that was read
                        \* to its end or that added a record; None before
    pc,                 \* pipeline position
    text,               \* preprocess_text: the argument
    noun_phrases,       \* preprocess_text: what _extract_noun_phrases returned
    matching_phrases,   \* preprocess_text: the sorted matching phrases
    idx,                \* preprocess_text: the enumerate() counter
    preprocessed_text,  \* preprocess_text: the working text
    replacements,       \* dict placeholder -> Term, as a sequence in insertion order
    original_cases,     \* dict placeholder -> original text, as a function
    post_text,          \* postprocess_text: the argument text
    applied,            \* postprocess_text: placeholder -> the translation substituted
    result,             \* postprocess_text: the returned text
    raised              \* postprocess_text: whether an exception escaped

vars == <<SPACY_AVAILABLE, terms, language, lpc, csv, loaded, last_source, pc, text,
          noun_phrases, matching_phrases, idx, preprocessed_text, replacements,
          original_cases, post_text, applied, result, raised>>

loadVars == <<terms, language, lpc, csv, loaded, last_source>>
callVars == <<pc, text, noun_phrases, matching_phrases, idx, preprocessed_text, replacements,
              original_cases, post_text, applied, result, raised>>

-----------------------------------------------------------------------------
(* Bounds of the model.                                                    *)

\* records stored in one run of the loader specification
MaxRows == 2
\* rows of the file the constructor loads before the pipeline is used
MaxFileRows == 1
\* words of a text given to preprocess_text
MaxWords == 3
\* pieces of a text given to postprocess_text directly
MaxPieces == 3

-----------------------------------------------------------------------------
(* Python's str methods on the characters the model uses.                  *)

LowerChars == <<"a", "b", "c", "d", "e", "f", "g", "n", "r", "t", "w">>
UpperChars == <<"A", "B", "C", "D", "E", "F", "G", "N", "R", "T", "W">>
Digits == <<"0", "1", "2", "3", "4", "5", "6", "7", "8", "9">>

Range(s) == {s[i] : i \in DOMAIN s}

IsLowerChar(c) == c \in Range(LowerChars)
IsUpperChar(c) == c \in Range(UpperChars)
IsCased(c) == IsLowerChar(c) \/ IsUpperChar(c)
IsSpace(c) == c = " "
\* \w of the re module
IsWordChar(c) == IsCased(c) \/ c \in Range(Digits) \/ c = "_"

LowerChar(c) ==
    IF IsUpperChar(c)
    THEN LowerChars[CHOOSE i \in DOMAIN UpperChars : UpperChars[i] = c]
    ELSE c

UpperChar(c) ==
    IF IsLowerChar(c)
    THEN UpperChars[CHOOSE i \in DOMAIN LowerChars : LowerChars[i] = c]
    ELSE c

\* str.lower()
Lower(s) == [i \in DOMAIN s |-> LowerChar(s[i])]
\* str.upper()
Upper(s) == [i \in DOMAIN s |-> UpperChar(s[i])]
\* str.capitalize(): first character upper-cased, the rest lower-cased
Capitalize(s) == [i \in DOMAIN s |-> IF i = 1 THEN UpperChar(s[i]) ELSE LowerChar(s[i])]

\* str.isupper(): at least one cased character and no lower-case one
IsUpper(s) ==
    /\ \E i \in DOMAIN s : IsCased(s[i])
    /\ \A i \in DOMAIN s : ~IsLowerChar(s[i])

\* str.istitle(): upper-case characters only after uncased ones, lower-case
\* characters only after cased ones, and at least one cased character
IsTitle(s) ==
    /\ \E i \in DOMAIN s : IsCased(s[i])
    /\ \A i \in DOMAIN s :
        LET prev_cased == i > 1 /\ IsCased(s[i - 1])
        IN  /\ IsUpperChar(s[i]) => ~prev_cased
            /\ IsLowerChar(s[i]) => prev_cased

\* s[a:b] of Python for 0 <= a, 0 <= b (0-based, end exclusive, clipped)
Slice(s, a, b) ==
    LET hi == IF b > Len(s) THEN Len(s) ELSE b
    IN  IF a >= hi THEN <<>> ELSE SubSeq(s, a + 1, hi)

\* str.strip()
Strip(s) ==
    LET keep == {i \in DOMAIN s : ~IsSpace(s[i])}
    IN  IF keep = {} THEN <<>>
        ELSE LET lo == CHOOSE i \in keep : \A j \in keep : i <= j
                 hi == CHOOSE i \in keep : \A j \in keep : j <= i
             IN  SubSeq(s, lo, hi)

\* the maximal runs of TRUE in a sequence of booleans, as 0-based [start, end)
RunsOf(in_class) ==
    {<<a, b>> \in (0 .. Len(in_class)) \X (0 .. Len(in_class)) :
        /\ a < b
        /\ \A i \in (a + 1) .. b : in_class[i]
        /\ a > 0 => ~in_class[a]
        /\ b < Len(in_class) => ~in_class[b + 1]}

\* the maximal runs of \w characters: the matches of \b\w+\b
WordRuns(s) == RunsOf([i \in DOMAIN s |-> IsWordChar(s[i])])

\* the maximal runs of characters that are no whitespace
NonSpaceRuns(s) == RunsOf([i \in DOMAIN s |-> ~IsSpace(s[i])])

\* a set of disjoint runs as the sequence of them from left to right
RECURSIVE RunsInOrder(_)
RunsInOrder(runs) ==
    IF runs = {} THEN <<>>
    ELSE LET first == CHOOSE r \in runs : \A q \in runs : r[1] <= q[1]
         IN  <<first>> \o RunsInOrder(runs \ {first})

\* str.split(): the whitespace separated words
Split(s) ==
    LET runs == RunsInOrder(NonSpaceRuns(s))
    IN  [i \in DOMAIN runs |-> Slice(s, runs[i][1], runs[i][2])]

\* ' '.join(words)
RECURSIVE Join(_)
Join(words) ==
    IF words = <<>> THEN <<>>
    ELSE IF Len(words) = 1 THEN words[1]
    ELSE words[1] \o <<" ">> \o Join(Tail(words))

\* whether sub occurs in s at 0-based offset i
OccursAt(s, sub, i) ==
    /\ i >= 0
    /\ i + Len(sub) <= Len(s)
    /\ \A j \in 1 .. Len(sub) : s[i + j] = sub[j]

Contains(s, sub) == \E i \in 0 .. Len(s) : OccursAt(s, sub, i)

\* str.find(sub): the lowest offset of sub in s, or -1
Find(s, sub) ==
    IF Contains(s, sub)
    THEN CHOOSE i \in 0 .. Len(s) :
            OccursAt(s, sub, i) /\ \A j \in 0 .. (i - 1) : ~OccursAt(s, sub, j)
    ELSE -1

\* str.replace(old, new) for a non-empty old: every non-overlapping
\* occurrence, scanning from the left
RECURSIVE Replace(_, _, _)
Replace(s, old, new) ==
    IF s = <<>> THEN <<>>
    ELSE IF OccursAt(s, old, 0)
         THEN new \o Replace(Slice(s, Len(old), Len(s)), old, new)
         ELSE <<s[1]>> \o Replace(Tail(s), old, new)

\* str(n) of a non-negative int
RECURSIVE IntStr(_)
IntStr(n) ==
    IF n < 10 THEN <<Digits[n + 1]>>
    ELSE IntStr(n \div 10) \o <<Digits[(n % 10) + 1]>>

-----------------------------------------------------------------------------
(* The term store and its loader.                                          *)

NaN == <<"NaN">>
NaNId == <<>>
None == <<"None">>

\* str(cell) of a pandas cell: an empty cell reads as NaN, and str(NaN) is "nan"
PyStr(cell) == IF cell = NaN THEN <<"n", "a", "n">> ELSE cell

\* row.get(column, default)
RowGet(file, row, column, default) ==
    IF column \in file.columns THEN row[column] ELSE default

\* lines 67-73: the language a file's name gives
FileLanguage(file) ==
    IF file.name.lang_match THEN Lower(file.name.group1) ELSE <<"e", "n">>

\* int(row.get('id', len(self.terms) + 1)) raises on an empty id cell
RowRaises(file, row) == RowGet(file, row, "id", <<0>>) = NaNId

\* lines 76-89: the Term a row makes
RowTerm(tm, file, row) ==
    [id          |-> RowGet(file, row, "id", <<Cardinality(DOMAIN tm) + 1>>)[1],
     term        |-> Strip(Lower(PyStr(RowGet(file, row, "term", <<>>)))),
     translation |-> PyStr(RowGet(file, row, "translation", <<>>)),
     domain      |-> "general",
     language    |-> FileLanguage(file)]

\* line 81: if term_text and translation
RowAccepted(t) == t.term # <<>> /\ t.translation # <<>>

\* a store that keeps the first record of a key (dict.setdefault)
StoreTermKeepFirst(tm, t) ==
    [k \in DOMAIN tm \cup {t.term} |-> IF k \in DOMAIN tm THEN tm[k] ELSE t]

\* line 90: self.terms[term_text] = term_obj
StoreTerm(tm, t) ==
    [k \in DOMAIN tm \cup {t.term} |-> IF k = t.term THEN t ELSE tm[k]]

\* lines 75-90: one iteration of the loop, for a row that does not raise
LoadRow(tm, file, row) ==
    LET t == RowTerm(tm, file, row)
    IN  IF RowAccepted(t) THEN StoreTerm(tm, t) ELSE tm

\* get_language
GetLanguage(lang) == IF lang # None THEN lang ELSE <<"e", "n">>

EmptyStore == [k \in {} |-> 0]

\* the files and rows the loader is given
FileNames == {[lang_match |-> TRUE, group1 |-> <<"T", "W">>],
              [lang_match |-> FALSE, group1 |-> <<>>]}
ColumnSets == {{"id", "term", "translation"}, {"term", "translation"}, {"id", "term"}}
Files == {[name |-> n, columns |-> c, readable |-> r] :
            n \in FileNames, c \in ColumnSets, r \in BOOLEAN}
IdCells == {NaNId, <<1>>, <<2>>}
TermCells == {<<" ", "B">>, <<"c", "d">>, <<" ">>, NaN}
TranslationCells == {<<"e">>, <<"f", " ", "G">>}
Rows == {[id |-> i, term |-> t, translation |-> tr] :
            i \in IdCells, t \in TermCells, tr \in TranslationCells}

NoFile == [name |-> [lang_match |-> FALSE, group1 |-> <<>>], columns |-> {},
           readable |-> FALSE]

InitCall ==
    /\ pc = "idle"
    /\ text = <<>>
    /\ noun_phrases = <<>>
    /\ matching_phrases = <<>>
    /\ idx = 0
    /\ preprocessed_text = <<>>
    /\ replacements = <<>>
    /\ original_cases = EmptyStore
    /\ post_text = <<>>
    /\ applied = EmptyStore
    /\ result = <<>>
    /\ raised = FALSE

\* __init__ with no terminology_source
InitLoad ==
    /\ SPACY_AVAILABLE \in BOOLEAN
    /\ terms = EmptyStore
    /\ language = None
    /\ lpc = "idle"
    /\ csv = NoFile
    /\ loaded = <<>>
    /\ last_source = None
    /\ InitCall

\* lines 63-73: pd.read_csv; an unreadable file raises and is reported
ReadCsv(file) ==
    /\ lpc = "idle"
    /\ lpc' = IF file.readable THEN "rows" ELSE "idle"
    /\ csv' = IF file.readable THEN file ELSE csv
    /\ UNCHANGED <<SPACY_AVAILABLE, terms, language, loaded, last_source>>
    /\ UNCHANGED callVars

\* lines 75-90, 94-95: one row; a raise leaves the loop and skips line 92
IterRow(row) ==
    /\ lpc = "rows"
    /\ RowRaises(csv, row) \/ Len(loaded) < MaxRows
    /\ IF RowRaises(csv, row)
       THEN /\ lpc' = "idle"
            /\ UNCHANGED <<terms, loaded, last_source>>
       ELSE /\ terms' = LoadRow(terms, csv, row)
            /\ IF RowAccepted(RowTerm(terms, csv, row))
               THEN /\ loaded' = Append(loaded,
                                      [record   |-> RowTerm(terms, csv, row),
                                       id_given |-> "id" \in csv.columns])
                    /\ last_source' = FileLanguage(csv)
               ELSE UNCHANGED <<loaded, last_source>>
            /\ lpc' = lpc
    /\ UNCHANGED <<SPACY_AVAILABLE, language, csv>>
    /\ UNCHANGED callVars

\* line 92: self.language = language
EndRows ==
    /\ lpc = "rows"
    /\ language' = FileLanguage(csv)
    /\ last_source' = FileLanguage(csv)
    /\ lpc' = "idle"
    /\ UNCHANGED <<SPACY_AVAILABLE, terms, csv, loaded>>
    /\ UNCHANGED callVars

NextLoad ==
    \/ \E file \in Files : ReadCsv(file)
    \/ \E row \in Rows : IterRow(row)
    \/ EndRows

SpecLoad == InitLoad /\ [][NextLoad]_vars

\* line 195: placeholder = f"<{term_obj.id}>"
Placeholder(t) == <<"<">> \o IntStr(t.id) \o <<">">>

-----------------------------------------------------------------------------
(* The constructor: __init__ with a terminology_source that is one file.   *)

\* lines 75-90 over the rows of a file, stopping at the first row that raises
RECURSIVE LoadRows(_, _, _)
LoadRows(m, file, rows) ==
    IF rows = <<>> THEN m
    ELSE IF RowRaises(file, Head(rows)) THEN [m EXCEPT !.raised = TRUE]
    ELSE LET t == RowTerm(m.terms, file, Head(rows))
             n == IF RowAccepted(t)
                  THEN [m EXCEPT !.terms = LoadRow(m.terms, file, Head(rows)),
                                 !.loaded = Append(m.loaded,
                                               [record   |-> t,
                                                id_given |-> "id" \in file.columns]),
                                 !.last_source = FileLanguage(file)]
                  ELSE m
         IN  LoadRows(n, file, Tail(rows))

\* _load_single_file: line 92 is reached only when no row raised
LoadSingleFile(m, file, rows) ==
    IF ~file.readable THEN m
    ELSE LET r == LoadRows(m, file, rows)
         IN  IF r.raised THEN [r EXCEPT !.raised = FALSE]
             ELSE [r EXCEPT !.language = FileLanguage(file),
                            !.last_source = FileLanguage(file)]

NewManager == [terms |-> EmptyStore, language |-> None, loaded |-> <<>>,
               last_source |-> None, raised |-> FALSE]

\* the sequences of at most n elements of a set
RECURSIVE SeqsUpTo(_, _)
SeqsUpTo(S, n) ==
    IF n = 0 THEN {<<>>}
    ELSE LET shorter == SeqsUpTo(S, n - 1)
         IN  shorter \cup {Append(q, x) : q \in shorter, x \in S}

\* the terminology files the pipeline's manager is constructed from
SourceFiles == {[name |-> [lang_match |-> TRUE, group1 |-> <<"T", "W">>],
                 columns |-> {"id", "term", "translation"}, readable |-> TRUE]}
SourceRows == {[id |-> i, term |-> t, translation |-> <<"e">>] :
                i \in {<<1>>, <<2>>},
                t \in {<<"b">>, <<"b", " ", "b">>}}

-----------------------------------------------------------------------------
(* Term lookup.                                                            *)

\* lines 13 and 18: spaCy's stop word list ("a" is one of its words), or set()
STOPWORDS(spacy) == IF spacy THEN {<<"a">>} ELSE {}

\* _remove_stopwords.  nlp() splits the model's phrases as str.split() does.
RemoveStopwords(spacy, phrase) ==
    IF ~spacy
    THEN Join(SelectSeq(Split(Lower(phrase)), LAMBDA w : w \notin STOPWORDS(spacy)))
    ELSE Strip(Join(SelectSeq(Split(Lower(phrase)),
                              LAMBDA w : w \notin STOPWORDS(spacy))))

\* a lookup that also accepts a term the phrase is a prefix of
MatchKeyPrefix(tm, spacy, phrase) ==
    LET phrase_lower == Strip(Lower(phrase))
        longer == {k \in DOMAIN tm : OccursAt(k, phrase_lower, 0)}
    IN  IF phrase_lower \in DOMAIN tm THEN phrase_lower
        ELSE IF longer # {} /\ phrase_lower # <<>> THEN CHOOSE k \in longer : TRUE
        ELSE None

\* _find_matching_term: the key of the Term it returns, or None
MatchKey(tm, spacy, phrase) ==
    LET phrase_lower == Strip(Lower(phrase))
        cleaned_phrase == RemoveStopwords(spacy, phrase_lower)
    IN  IF phrase_lower \in DOMAIN tm THEN phrase_lower
        ELSE IF cleaned_phrase # <<>> /\ cleaned_phrase \in DOMAIN tm THEN cleaned_phrase
        ELSE None

-----------------------------------------------------------------------------
(* Phrase extraction.                                                      *)

Phrase(t, a, b) == [text |-> t, start |-> a, end |-> b]

\* lines 111-116: the words of text.lower() that are terms, each at the
\* offset str.find gives
FallbackPhrases(tm, txt) ==
    LET low == Lower(txt)
        runs == RunsInOrder(WordRuns(low))
        words == [i \in DOMAIN runs |-> Slice(low, runs[i][1], runs[i][2])]
        known == SelectSeq(words, LAMBDA w : w \in DOMAIN tm)
    IN  [i \in DOMAIN known |->
            Phrase(known[i], Find(low, known[i]), Find(low, known[i]) + Len(known[i]))]

\* the tokens of nlp(text) as [start, end) offsets: the model's texts are
\* words separated by single spaces, which the tokenizer splits at the spaces
Tokens(txt) == RunsInOrder(NonSpaceRuns(txt))

\* what the parser may find in a text: any set of runs of tokens, as
\* <<first token, last token>>, no two of which overlap
NounRuns(txt) ==
    LET toks == Tokens(txt)
        runs == {<<i, j>> \in (DOMAIN toks) \X (DOMAIN toks) : i <= j}
    IN  {c \in SUBSET runs :
            \A r, q \in c : r # q => (r[2] < q[1] \/ q[2] < r[1])}

\* lines 118-145, given the parser's chunks and the tokens it tags NOUN or PROPN
SpacyPhrases(txt, chunks, nouns) ==
    LET toks == Tokens(txt)
        spans == RunsInOrder({<<toks[c[1]][1], toks[c[2]][2]>> : c \in chunks})
        chunk_phrases == [i \in DOMAIN spans |->
                            Phrase(Slice(txt, spans[i][1], spans[i][2]),
                                   spans[i][1], spans[i][2])]
        covered_spans == UNION {spans[i][1] .. (spans[i][2] - 1) : i \in DOMAIN spans}
        extra == SelectSeq(toks, LAMBDA tk :
                    /\ \E n \in nouns : toks[n] = tk
                    /\ tk[1] \notin covered_spans)
    IN  chunk_phrases \o
        [i \in DOMAIN extra |->
            Phrase(Slice(txt, extra[i][1], extra[i][2]), extra[i][1], extra[i][2])]

\* a sort by start that forgets reverse=True
RECURSIVE SortByStartAsc(_)
SortByStartAsc(phrases) ==
    IF phrases = <<>> THEN <<>>
    ELSE LET rest == SortByStartAsc(Tail(phrases))
             before == SelectSeq(rest, LAMBDA q : q.start < Head(phrases).start)
             after == SelectSeq(rest, LAMBDA q : q.start >= Head(phrases).start)
         IN  before \o <<Head(phrases)>> \o after

\* line 186: list.sort(key=start, reverse=True), a stable sort
RECURSIVE SortByStartDesc(_)
SortByStartDesc(phrases) ==
    IF phrases = <<>> THEN <<>>
    ELSE LET rest == SortByStartDesc(Tail(phrases))
             before == SelectSeq(rest, LAMBDA q : q.start > Head(phrases).start)
             after == SelectSeq(rest, LAMBDA q : q.start <= Head(phrases).start)
         IN  before \o <<Head(phrases)>> \o after

-----------------------------------------------------------------------------
(* preprocess_text.                                                        *)

\* the texts preprocess_text is given: words separated by single spaces
Words == {<<"a">>, <<"b">>, <<"B">>, <<"<", "1", ">">>}
Texts == {Join(ws) : ws \in SeqsUpTo(Words, MaxWords)}

\* dict[key] = value on a dict kept as a sequence of <<key, value>> in
\* insertion order: an existing key keeps its place
DictSet(d, key, value) ==
    IF \E i \in DOMAIN d : d[i][1] = key
    THEN [i \in DOMAIN d |-> IF d[i][1] = key THEN <<key, value>> ELSE d[i]]
    ELSE Append(d, <<key, value>>)

DictKeys(d) == {d[i][1] : i \in DOMAIN d}

\* lines 198-202: the placeholder in place of [start, end)
Spliced(working, phrase, placeholder) ==
    Slice(working, 0, phrase.start) \o placeholder
        \o Slice(working, phrase.end, Len(working))

\* lines 173-190: up to the loop
PreprocessCall(txt, phrases) ==
    /\ pc = "idle"
    /\ text' = txt
    /\ preprocessed_text' = txt
    /\ replacements' = <<>>
    /\ original_cases' = EmptyStore
    /\ IF DOMAIN terms = {}
       THEN /\ noun_phrases' = <<>>
            /\ matching_phrases' = <<>>
            /\ idx' = 0
            /\ pc' = "preprocessed"
       ELSE LET matching == SelectSeq(phrases,
                                LAMBDA ph : MatchKey(terms, SPACY_AVAILABLE, ph.text) # None)
            IN  /\ noun_phrases' = phrases
                /\ matching_phrases' = SortByStartDesc(matching)
                /\ idx' = 1
                /\ pc' = IF matching = <<>> THEN "preprocessed" ELSE "splice"
    /\ UNCHANGED <<post_text, applied, result, raised>>
    /\ UNCHANGED <<SPACY_AVAILABLE, terms, language, lpc, csv, loaded, last_source>>

\* line 177: the phrases of either extractor.  The parser reports a run of
\* several tokens as a noun chunk and a run of one token as a standalone
\* noun (a one-token chunk gives the same span).
Preprocess ==
    /\ pc = "idle"
    /\ \E txt \in Texts :
        IF SPACY_AVAILABLE
        THEN \E runs \in NounRuns(txt) :
                PreprocessCall(txt,
                    SpacyPhrases(txt, {r \in runs : r[1] < r[2]},
                                      {r[1] : r \in {q \in runs : q[1] = q[2]}}))
        ELSE PreprocessCall(txt, FallbackPhrases(terms, txt))

\* lines 192-205: one iteration of the loop; after the last, the return
Splice ==
    /\ pc = "splice"
    /\ LET phrase == matching_phrases[idx]
           key == MatchKey(terms, SPACY_AVAILABLE, phrase.text)
       IN  IF key # None
           THEN LET placeholder == Placeholder(terms[key])
                IN  /\ preprocessed_text' = Spliced(preprocessed_text, phrase, placeholder)
                    /\ replacements' = DictSet(replacements, placeholder, terms[key])
                    /\ original_cases' =
                          [p \in DOMAIN original_cases \cup {placeholder} |->
                              IF p = placeholder THEN phrase.text ELSE original_cases[p]]
           ELSE UNCHANGED <<preprocessed_text, replacements, original_cases>>
    /\ idx' = idx + 1
    /\ pc' = IF idx = Len(matching_phrases) THEN "preprocessed" ELSE "splice"
    /\ UNCHANGED <<text, noun_phrases, matching_phrases, post_text, applied, result, raised>>
    /\ UNCHANGED <<SPACY_AVAILABLE, terms, language, lpc, csv, loaded, last_source>>

-----------------------------------------------------------------------------
(* postprocess_text.                                                       *)

\* lines 229-235: the translation in the case pattern of the original text.
\* Line 229 guards original_text[0], so no path raises.
AdjustCase(original_text, translation) ==
    IF original_text # <<>>
    THEN IF IsUpper(original_text)
         THEN [raises |-> FALSE, value |-> Upper(translation)]
         ELSE IF IsTitle(original_text)
         THEN [raises |-> FALSE, value |-> Capitalize(translation)]
         ELSE IF IsUpperChar(original_text[1])
         THEN [raises |-> FALSE, value |-> Capitalize(translation)]
         ELSE [raises |-> FALSE, value |-> translation]
    ELSE [raises |-> FALSE, value |-> translation]

\* original_cases.get(placeholder, '')
OriginalOf(cases, placeholder) ==
    IF placeholder \in DOMAIN cases THEN cases[placeholder] ELSE <<>>

\* whether s is "<" digits ">"
IsPlaceholderToken(s) ==
    /\ Len(s) >= 3
    /\ s[1] = "<"
    /\ s[Len(s)] = ">"
    /\ \A i \in 2 .. (Len(s) - 1) : s[i] \in Range(Digits)

\* a substitution by pattern: every "<digits>" token is taken for the placeholder
RECURSIVE ReplaceAnyToken(_, _, _)
ReplaceAnyToken(s, old, new) ==
    IF s = <<>> THEN <<>>
    ELSE LET ends == {n \in 3 .. Len(s) : IsPlaceholderToken(SubSeq(s, 1, n))}
         IN  IF ends # {}
             THEN new \o ReplaceAnyToken(
                            Slice(s, CHOOSE n \in ends : \A m \in ends : n <= m, Len(s)),
                            old, new)
             ELSE <<s[1]>> \o ReplaceAnyToken(Tail(s), old, new)

\* line 237: result.replace(placeholder, translation)
Substitute(s, placeholder, translation) == Replace(s, placeholder, translation)

\* lines 224-237: the loop over replacements.items(), from entry i on
RECURSIVE PostLoop(_, _, _, _)
PostLoop(state, repl, cases, i) ==
    IF i > Len(repl) \/ state.raised THEN state
    ELSE LET placeholder == repl[i][1]
             adjusted == AdjustCase(OriginalOf(cases, placeholder), repl[i][2].translation)
         IN  IF adjusted.raises
             THEN [state EXCEPT !.raised = TRUE]
             ELSE PostLoop(
                    [state EXCEPT
                        !.result = Substitute(state.result, placeholder, adjusted.value),
                        !.applied = [p \in DOMAIN state.applied \cup {placeholder} |->
                                        IF p = placeholder THEN adjusted.value
                                        ELSE state.applied[p]]],
                    repl, cases, i + 1)

PostprocessText(txt, repl, cases) ==
    PostLoop([result |-> txt, applied |-> EmptyStore, raised |-> FALSE], repl, cases, 1)

\* postprocess_text on the text of the matching preprocess_text call, which
\* the translation provider passed through
Postprocess ==
    /\ pc = "preprocessed"
    /\ LET out == PostprocessText(preprocessed_text, replacements, original_cases)
       IN  /\ post_text' = preprocessed_text
           /\ result' = out.result
           /\ applied' = out.applied
           /\ raised' = out.raised
    /\ pc' = "postprocessed"
    /\ UNCHANGED <<text, noun_phrases, matching_phrases, idx, preprocessed_text,
                   replacements, original_cases>>
    /\ UNCHANGED <<SPACY_AVAILABLE, terms, language, lpc, csv, loaded, last_source>>

-----------------------------------------------------------------------------
(* The pipeline: a manager constructed from one terminology file, then     *)
(* preprocess_text and the matching postprocess_text.                      *)

Init ==
    /\ SPACY_AVAILABLE \in BOOLEAN
    /\ \E file \in SourceFiles, rows \in SeqsUpTo(SourceRows, MaxFileRows) :
        LET m == LoadSingleFile(NewManager, file, rows)
        IN  /\ terms = m.terms
            /\ language = m.language
            /\ loaded = m.loaded
            /\ last_source = m.last_source
            /\ csv = file
    /\ lpc = "idle"
    /\ InitCall

Next ==
    \/ Preprocess
    \/ Splice
    \/ Postprocess

Spec == Init /\ [][Next]_vars

-----------------------------------------------------------------------------
(* postprocess_text alone, on any text and any mapping.                    *)

RECURSIVE Concat(_)
Concat(pieces) ==
    IF pieces = <<>> THEN <<>> ELSE Head(pieces) \o Concat(Tail(pieces))

Pieces == {<<"<", "1", ">">>, <<"<", "2", ">">>, <<"<", "1", "2", ">">>, <<"e">>}
PostTexts == {Concat(ps) : ps \in SeqsUpTo(Pieces, MaxPieces)}
PostIds == {1, 2}
PostOrders == {<<>>, <<1>>, <<2>>, <<1, 2>>, <<2, 1>>}
PostTranslations == {<<"e">>, <<"f", " ", "G">>, <<"<", "2", ">">>}
\* None: the placeholder is no key of original_cases
PostOriginals == {None, <<"b">>, <<"B">>, <<"C", "d">>, <<"B", " ", "c", "d">>}

PostTerm(id, translation) ==
    [id |-> id, term |-> <<"b">>, translation |-> translation,
     domain |-> "general", language |-> <<"e", "n">>]

InitPost ==
    /\ SPACY_AVAILABLE = FALSE
    /\ terms = EmptyStore
    /\ language = None
    /\ lpc = "idle"
    /\ csv = NoFile
    /\ loaded = <<>>
    /\ last_source = None
    /\ pc = "preprocessed"
    /\ text = <<>>
    /\ noun_phrases = <<>>
    /\ matching_phrases = <<>>
    /\ idx = 0
    /\ preprocessed_text \in PostTexts
    /\ \E order \in PostOrders,
          tr \in [PostIds -> PostTranslations],
          og \in [PostIds -> PostOriginals] :
        /\ replacements =
              [i \in DOMAIN order |->
                  <<Placeholder(PostTerm(order[i], tr[order[i]])),
                    PostTerm(order[i], tr[order[i]])>>]
        /\ original_cases =
              [p \in {Placeholder(PostTerm(id, tr[id])) :
                        id \in {n \in Range(order) : og[n] # None}} |->
                  og[CHOOSE id \in Range(order) : Placeholder(PostTerm(id, tr[id])) = p]]
    /\ post_text = <<>>
    /\ applied = EmptyStore
    /\ result = <<>>
    /\ raised = FALSE

NextPost == Postprocess

SpecPost == InitPost /\ [][NextPost]_vars

-----------------------------------------------------------------------------
(* The loader's claims, under SpecLoad.                                    *)

\* the last record stored under a key
LastLoaded(k) ==
    LET at == {i \in DOMAIN loaded : loaded[i].record.term = k}
    IN  loaded[CHOOSE i \in at : \A j \in at : j <= i].record

\* C8: after any sequence of loads, also of sources that fail partway, every
\* key of the store is lowercase, trimmed and non-empty, the Term under a key
\* has that key as its term and a non-empty translation, and it is the last
\* record loaded with that key.
StoreInvariant ==
    /\ DOMAIN terms = {loaded[i].record.term : i \in DOMAIN loaded}
    /\ \A k \in DOMAIN terms :
        /\ k = Lower(k)
        /\ k = Strip(k)
        /\ k # <<>>
        /\ terms[k].term = k
        /\ terms[k].translation # <<>>
        /\ terms[k] = LastLoaded(k)

\* C8's case: a key loaded twice with different records, and then a source
\* that failed partway (its records are stored, line 92 was skipped)
StoreWitness ==
    /\ lpc = "idle"
    /\ \E i, j \in DOMAIN loaded :
        /\ i < j
        /\ loaded[i].record.term = loaded[j].record.term
        /\ loaded[i].record.translation # loaded[j].record.translation
    /\ GetLanguage(language) # GetLanguage(last_source)

\* the ids the sources give in their id column are those of distinct terms
GivenIdsDistinct ==
    \A i, j \in DOMAIN loaded :
        (/\ loaded[i].id_given
         /\ loaded[j].id_given
         /\ loaded[i].record.term # loaded[j].record.term)
        => loaded[i].record.id # loaded[j].record.id

\* C4: distinct Term records of the store have distinct ids, read from the
\* id column or defaulted to the running counter, hence distinct "<id>"
\* placeholder tokens (stated for sources whose id columns repeat no id)
PlaceholdersDistinct ==
    (lpc = "idle" /\ GivenIdsDistinct) =>
        \A k1, k2 \in DOMAIN terms :
            k1 # k2 => Placeholder(terms[k1]) # Placeholder(terms[k2])

\* C9: after any sequence of loads get_language returns the language code of
\* the most recently loaded source, and "en" if nothing was loaded
LanguageOfLastSource ==
    lpc = "idle" => GetLanguage(language) = GetLanguage(last_source)


-----------------------------------------------------------------------------
(* The encoder's claims, under Spec.                                       *)

\* the placeholder the loop gives a matching phrase
PlaceholderFor(phrase) ==
    Placeholder(terms[MatchKey(terms, SPACY_AVAILABLE, phrase.text)])

Overlap(p, q) == p.start < q.end /\ q.start < p.end

\* the text with each span of a set of disjoint, non-empty spans replaced
\* by its placeholder, built from the left from offset pos on
RECURSIVE Rebuilt(_, _, _)
Rebuilt(txt, spans, pos) ==
    IF pos >= Len(txt) THEN <<>>
    ELSE IF \E sp \in spans : sp.start = pos
    THEN LET sp == CHOOSE q \in spans : q.start = pos
         IN  PlaceholderFor(sp) \o Rebuilt(txt, spans, sp.end)
    ELSE <<txt[pos + 1]>> \o Rebuilt(txt, spans, pos + 1)

Selected == {matching_phrases[i] : i \in DOMAIN matching_phrases}

\* C1: after preprocess_text with a non-empty store, under either extractor,
\* every selected span is replaced by its placeholder, the text outside the
\* selected spans is unchanged and no two placeholders overlap.
EverySpanReplaced ==
    (pc = "preprocessed" /\ DOMAIN terms # {}) =>
        /\ \A p, q \in Selected : p # q => ~Overlap(p, q)
        /\ preprocessed_text = Rebuilt(text, Selected, 0)

\* C2: the original recorded for a placeholder is the exact substring of the
\* input at the offsets of a span replaced by it, under either extractor; so
\* the store {1, "b" -> "e"} and the input "a B a" with the span [2, 3) give
\* "a <1> a", the original "B" and, after postprocess_text, "a E a".
OriginalIsExactSubstring ==
    /\ pc \in {"preprocessed", "postprocessed"} =>
        \A p \in DOMAIN original_cases :
            \E ph \in Selected :
                /\ PlaceholderFor(ph) = p
                /\ original_cases[p] = Slice(text, ph.start, ph.end)
    /\ (/\ pc = "postprocessed"
        /\ DOMAIN terms = {<<"b">>}
        /\ text = <<"a", " ", "B", " ", "a">>
        /\ Len(matching_phrases) = 1)
       => (/\ terms[<<"b">>].id = 1 => post_text = <<"a", " ", "<", "1", ">", " ", "a">>
           /\ result = <<"a", " ", "E", " ", "a">>)

\* C5: no placeholder of a preprocess_text call occurs in the input text or
\* in the translation of a stored Term.
PlaceholdersDistinguishable ==
    pc \in {"splice", "preprocessed", "postprocessed"} =>
        \A p \in DictKeys(replacements) :
            /\ ~Contains(text, p)
            /\ \A k \in DOMAIN terms : ~Contains(terms[k].translation, p)

Substrings(s) == {Slice(s, a, b) : a \in 0 .. Len(s), b \in 0 .. Len(s)}

Unchanged ==
    /\ preprocessed_text = text
    /\ replacements = <<>>
    /\ original_cases = EmptyStore

\* C6 as claimed: a text in which no stored term occurs comes back unchanged
\* with empty mappings.
NoTermNoChange ==
    (pc = "preprocessed" /\ \A k \in DOMAIN terms : ~Contains(Lower(text), k))
        => Unchanged

\* the words of a lowercased, trimmed text that are no stop words, joined
\* by single spaces
WithoutStopwords(s) ==
    Join(SelectSeq(Split(s), LAMBDA w : w \notin STOPWORDS(SPACY_AVAILABLE)))

\* a text equals a stored term once lowercased and trimmed, or once its stop
\* words are removed as well
Resolves(s) ==
    \/ Strip(Lower(s)) \in DOMAIN terms
    \/ WithoutStopwords(Strip(Lower(s))) \in DOMAIN terms

\* C6 as amended: a text no substring of which equals a stored term, once
\* lowercased and trimmed or once its stop words are removed as well, comes
\* back unchanged with empty mappings; and a span is resolved only to the
\* term that its text is in one of these two forms.
NoMatchNoChange ==
    pc = "preprocessed" =>
        /\ (\A s \in Substrings(text) : ~Resolves(s)) => Unchanged
        /\ \A i \in DOMAIN replacements :
            \E ph \in Selected :
                replacements[i][2].term \in
                    {Strip(Lower(ph.text)), WithoutStopwords(Strip(Lower(ph.text)))}

\* C6's case: a non-empty store, a text with candidate spans none of which
\* resolves
NoMatchWitness ==
    /\ pc = "preprocessed"
    /\ DOMAIN terms # {}
    /\ noun_phrases # <<>>
    /\ \A s \in Substrings(text) : ~Resolves(s)
    /\ Unchanged

PairwiseDisjoint ==
    \A i, j \in DOMAIN matching_phrases :
        i # j => ~Overlap(matching_phrases[i], matching_phrases[j])

\* C10: when the matched spans are pairwise non-overlapping, the characters
\* of the working text at a span's offsets are those of the original text at
\* the moment the span is spliced, and the final text is the original with
\* each matched span replaced by its placeholder, in whatever order the
\* extractor returned the spans.
OffsetsStayValid ==
    PairwiseDisjoint =>
        /\ pc = "splice" =>
            Slice(preprocessed_text, matching_phrases[idx].start, matching_phrases[idx].end)
                = Slice(text, matching_phrases[idx].start, matching_phrases[idx].end)
        /\ pc \in {"preprocessed", "postprocessed"} /\ DOMAIN terms # {} =>
            preprocessed_text = Rebuilt(text, Selected, 0)

\* C10's case: two disjoint matched spans that the extractor returned
\* leftmost first, all spliced
OffsetsWitness ==
    /\ pc = "preprocessed"
    /\ Len(matching_phrases) >= 2
    /\ PairwiseDisjoint
    /\ \E i, j \in DOMAIN noun_phrases :
        /\ i < j
        /\ noun_phrases[i].start < noun_phrases[j].start
        /\ noun_phrases[i] \in Selected
        /\ noun_phrases[j] \in Selected
    /\ preprocessed_text # text

-----------------------------------------------------------------------------
(* The restorer's claims, under SpecPost.                                  *)

\* the case pattern as claimed: the leading character capitalized, the
\* rest of the translation as it is
ClaimedCase(original_text, translation) ==
    IF original_text = <<>> THEN translation
    ELSE IF IsUpper(original_text) THEN Upper(translation)
    ELSE IF IsTitle(original_text) \/ IsUpperChar(original_text[1])
    THEN [i \in DOMAIN translation |->
            IF i = 1 THEN UpperChar(translation[i]) ELSE translation[i]]
    ELSE translation

Count(s, sub) == Cardinality({i \in 0 .. Len(s) : OccursAt(s, sub, i)})

TokensOf(s) == {t \in Substrings(s) : IsPlaceholderToken(t)}

\* C7: postprocess_text never raises, every "<N>" token of its input that is
\* no key of the mapping is still in its output, as often, and with an
\* empty mapping the output is the input.
UnmappedTokensKept ==
    pc = "postprocessed" =>
        /\ ~raised
        /\ \A t \in TokensOf(post_text) \ DictKeys(replacements) :
            Count(result, t) >= Count(post_text, t)
        /\ replacements = <<>> => result = post_text

\* C7's case: a text with a token of the mapping, which is substituted, and
\* a token that is no key of it
UnmappedWitness ==
    /\ pc = "postprocessed"
    /\ replacements # <<>>
    /\ \E t \in TokensOf(post_text) : t \in DictKeys(replacements)
    /\ \E t \in TokensOf(post_text) : t \notin DictKeys(replacements)
    /\ result # post_text

====
